---- MODULE Spec2Model ----
(***************************************************************************)
(* Event ingestion endpoints of apps/event_ingest/api.py: event_store,     *)
(* event_envelope and event_security, the shared dedup cache they claim    *)
(* event ids in, and the queue behind ingest_event.delay.                  *)
(*                                                                         *)
(* Every request is handled by its own worker; a handler is cut into steps *)
(* at its I/O calls (cache.add, ingest_event.delay), so that requests      *)
(* interleave exactly where the code can be suspended.                     *)
(***************************************************************************)
EXTENDS Integers, Sequences, FiniteSets, TLC

\* ---------------------------------------------------------------- bounds
NumWorkers == 2            \* requests in flight at once
MaxRequests == 3           \* requests per behaviour
MaxExpiry == 1             \* TTL expiries per dedup key
MaxItems == 4              \* items in one envelope

\* ------------------------------------------------------- optional values
None == <<>>
Some(v) == <<v>>
Truthy(o) == o # None

\* ------------------------------------------------------------ addresses
\* IPv4 addresses are 4-tuples of octets.
PublicRaw == <<203, 0, 113, 55>>
PublicMasked == <<203, 0, 113, 0>>
Loopback == <<127, 0, 0, 1>>
Private == <<10, 0, 0, 5>>
Addresses == {PublicRaw, PublicMasked, Loopback, Private}

\* ipware: loopback and private ranges are not publicly routable.
IsPubliclyRoutable(ip) ==
    /\ ip # None
    /\ ip[1] # 127
    /\ ip[1] # 10
    /\ ~(ip[1] = 192 /\ ip[2] = 168)
    /\ ~(ip[1] = 172 /\ ip[2] >= 16 /\ ip[2] <= 31)

\* get_client_ip(request) -> (client_ip, is_routable)
get_client_ip(request) ==
    <<request.remote_addr, IsPubliclyRoutable(request.remote_addr)>>

\* anonymize_ip: an IPv4 address keeps its first three octets.
anonymize_ip(ip) == [ip EXCEPT ![4] = 0]

\* get_ip_address(request) -> str | None
get_ip_address(request) ==
    LET project == request.auth
        resolved == get_client_ip(request)
        client_ip == resolved[1]
        is_routable == resolved[2]
    IN  IF is_routable
        THEN IF project.should_scrub_ip_addresses
             THEN anonymize_ip(client_ip)
             ELSE client_ip
        ELSE None

\* --------------------------------------------------------------- uuids
\* An event id is a number; .hex is its two-digit lowercase hex string.
HexDigits == <<"0", "1", "2", "3", "4", "5", "6", "7",
               "8", "9", "a", "b", "c", "d", "e", "f">>
Hex(n) == <<HexDigits[(n \div 16) + 1], HexDigits[(n % 16) + 1]>>
EventIds == {10, 171}

\* the cache key of line 64: "uuid" + payload.event_id.hex
DedupKey(event_id) == <<"uuid">> \o Hex(event_id)
Keys == {DedupKey(e) : e \in EventIds}

\* ------------------------------------------------------------- projects
\* request.auth: the project event_auth resolved for the request.
Projects ==
    { [id |-> 1, organization_id |-> 10, should_scrub_ip_addresses |-> TRUE],
      [id |-> 2, organization_id |-> 20, should_scrub_ip_addresses |-> FALSE] }

\* -------------------------------------------------------------- payloads
\* exception of an inbound event: absent, an empty list, a list of values
Exceptions == {None, <<"empty">>, <<"values", "ZeroDivisionError">>}
ExceptionTruthy(exc) == exc # None /\ exc # <<"empty">>

\* EventUser(ip_address=...)
EventUser(ip) == [ip_address |-> ip]
Users == {None} \cup {EventUser(ip) : ip \in Addresses \cup {None}}

StorePayloads ==
    [event_id : EventIds, exception : Exceptions, user : Users]
SmallStorePayloads ==
    [event_id : EventIds, exception : {None}, user : {None}]

\* payload.csp_report of a SecuritySchema, canonical field names
CspReports ==
    { [document_uri |-> "https://example.com", violated_directive |-> "img-src"],
      [document_uri |-> "https://example.org", violated_directive |-> "script-src"] }
SecurityPayloads == [csp_report : CspReports]
SmallSecurityPayloads ==
    [csp_report : {[document_uri |-> "https://example.com",
                    violated_directive |-> "img-src"]}]

\* csp_report.dict(by_alias=True): the browser's hyphenated names
DictByAlias(report) ==
    [f \in {"document-uri", "violated-directive"} |->
        IF f = "document-uri" THEN report.document_uri
        ELSE report.violated_directive]

ItemTypes == {"event", "transaction", "attachment"}
SupportedItemTypes == {"event", "transaction"}
RECURSIVE SeqsUpTo(_, _)
SeqsUpTo(S, n) ==
    IF n = 0 THEN {<<>>}
    ELSE LET shorter == SeqsUpTo(S, n - 1)
         IN  shorter \cup {Append(s, x) : s \in {t \in shorter : Len(t) = n - 1}, x \in S}
EnvelopePayloads == [items : SeqsUpTo(ItemTypes, MaxItems)]
SmallEnvelopePayloads == [items : {<<"event", "attachment">>}]

Requests == [auth : Projects, remote_addr : Addresses \cup {None}]
SmallRequests ==
    [auth : {p \in Projects : p.id = 1}, remote_addr : {PublicRaw}]

\* ----------------------------------------------------------------- state
VARIABLES
    settings,      \* django settings: [IS_LOAD_TEST]
    workers,       \* number of request-handling workers of the deployment
    cache,         \* django cache: the keys present
    epoch,         \* per key, how many times its TTL has run out
    adds,          \* per key, cache.add calls answered in the current TTL window
    queue,         \* the ingest_event.delay calls accepted, in order
    endpoint,      \* per request: "store", "envelope" or "security"
    request,       \* per request: [auth, remote_addr]
    inbound,       \* per request: the payload as it was received
    payload,       \* per request: the payload object the handler works on
    pc,            \* per request: the next step of its handler
    issue_event,   \* per request: the InterchangeIssueEvent built, or None
    task_result,   \* per request: the handle delay returned, or None
    response,      \* per request: [status, body]; status 0 while unanswered
    steps,         \* per request: the steps its handler has taken
    claimed        \* per request: what its cache.add answered, and when

vars == <<settings, workers, cache, epoch, adds, queue, endpoint, request,
          inbound, payload, pc, issue_event, task_result, response, steps,
          claimed>>

started == Len(pc)
RIds == 1..started
Active == Cardinality({r \in RIds : pc[r] # "done"})

NoResponse == [status |-> 0, body |-> None]

InitWith(n, flags) ==
    /\ settings \in [IS_LOAD_TEST : flags]
    /\ workers = n
    /\ cache = {}
    /\ epoch = [k \in Keys |-> 0]
    /\ adds = [k \in Keys |-> 0]
    /\ queue = <<>>
    /\ endpoint = <<>>
    /\ request = <<>>
    /\ inbound = <<>>
    /\ payload = <<>>
    /\ pc = <<>>
    /\ issue_event = <<>>
    /\ task_result = <<>>
    /\ response = <<>>
    /\ steps = <<>>
    /\ claimed = <<>>

\* IS_LOAD_TEST is off unless the deployment sets it
Init == InitWith(NumWorkers, {FALSE})

\* A request has passed event_auth and its body has been parsed: a free
\* worker starts the handler of its endpoint.
Begin(ep, first, p, q) ==
    /\ Active < workers
    /\ endpoint' = Append(endpoint, ep)
    /\ request' = Append(request, q)
    /\ inbound' = Append(inbound, p)
    /\ payload' = Append(payload, p)
    /\ pc' = Append(pc, first)
    /\ issue_event' = Append(issue_event, None)
    /\ task_result' = Append(task_result, None)
    /\ response' = Append(response, NoResponse)
    /\ steps' = Append(steps, <<>>)
    /\ claimed' = Append(claimed, None)
    /\ UNCHANGED <<settings, workers, cache, epoch, adds, queue>>

BeginStore(p, q) == Begin("store", "claim", p, q)
BeginEnvelope(p, q) == Begin("envelope", "handle", p, q)
BeginSecurity(p, q) == Begin("security", "build", p, q)

\* ------------------------------------------------------------ step helpers
\* the handler of r goes on to `next`, having taken the steps `taken`
Goto(r, next, taken) ==
    /\ pc' = [pc EXCEPT ![r] = next]
    /\ steps' = [steps EXCEPT ![r] = @ \o taken]

\* the handler of r returns or raises: the request is answered
Respond(r, status, body, taken) ==
    /\ response' = [response EXCEPT ![r] = [status |-> status, body |-> body]]
    /\ Goto(r, "done", taken)

\* ---------------------------------------------------------- dedup cache
\* cache.add(key, True): stores the key only if it is not there, in one step
\* variant: cache.set in place of cache.add, every caller is told "stored"
CacheAddOverwrite(store, key) ==
    [stored |-> TRUE, store |-> store \cup {key}]

CacheAdd(store, key) ==
    [stored |-> key \notin store, store |-> store \cup {key}]

\* line 64-65: what event_store makes of the call's outcome.  An exception
\* of the cache backend is not caught, the request dies of it.
\* variant: the cache error is caught and the request carries on
ClaimOutcomeSwallowed(answer) ==
    IF answer = "False" THEN "duplicate" ELSE "proceed"

ClaimOutcome(answer) ==
    IF answer = "Raise" THEN "server_error"
    ELSE IF answer = "False" THEN "duplicate"
    ELSE "proceed"

DuplicateError == [detail |-> <<[message |-> "Duplicate event id"]>>]

\* ------------------------------------------------------------ normalizer
\* variant: the exception is not looked at
get_issue_event_class_generic(event) == "IssueEventSchema"

get_issue_event_class(event) ==
    IF ExceptionTruthy(event.exception)
    THEN "ErrorIssueEventSchema"
    ELSE "IssueEventSchema"

\* issue_event_class(**payload.dict())
IssueEvent(class, p) ==
    [schema |-> class, exception |-> p.exception, csp |-> None, user |-> p.user]

\* variant: the report lands in the wrong field
CSPIssueEventSchemaAsException(csp) ==
    [schema |-> "CSPIssueEventSchema", exception |-> csp, csp |-> None,
     user |-> None]

\* CSPIssueEventSchema(csp=...)
CSPIssueEventSchema(csp) ==
    [schema |-> "CSPIssueEventSchema", exception |-> None, csp |-> csp,
     user |-> None]

\* lines 67-71 and 115-119: the resolved address goes into event.user
WithClientIp(event, client_ip) ==
    IF Truthy(client_ip)
    THEN IF Truthy(event.user)
         THEN [event EXCEPT !.user.ip_address = client_ip]
         ELSE [event EXCEPT !.user = EventUser(client_ip)]
    ELSE event

InterchangeIssueEvent(event_id, project_id, organization_id, p) ==
    [event_id |-> event_id, project_id |-> project_id,
     organization_id |-> organization_id, payload |-> p]

\* ----------------------------------------------------------- dispatcher
TaskId(n) == <<"task", n>>

\* variant: the call raises after the queue has taken the event
DelayThenRaise(q, r, event, ok) ==
    [queue |-> Append(q, [rid |-> r, event |-> event]),
     task_result |-> IF ok THEN [task_id |-> TaskId(Len(q) + 1)] ELSE None]

\* ingest_event.delay(event): the queue takes the event or the call raises
Delay(q, r, event, ok) ==
    IF ok
    THEN [queue |-> Append(q, [rid |-> r, event |-> event]),
          task_result |-> [task_id |-> TaskId(Len(q) + 1)]]
    ELSE [queue |-> q, task_result |-> None]

\* variant: the handle is returned whatever the settings say
StoreResultWithHandle(p, result, conf) ==
    [event_id |-> Hex(p.event_id), task_id |-> result.task_id]

\* lines 81-84
StoreResult(p, result, conf) ==
    [event_id |-> Hex(p.event_id),
     task_id |-> IF conf.IS_LOAD_TEST THEN result.task_id ELSE None]

\* ----------------------------------------------------------- event_store
\* line 64-65: the claim of the event id, one call to the shared cache
StoreClaim(r) ==
    /\ pc[r] = "claim"
    /\ \E up \in BOOLEAN :
         LET key == DedupKey(payload[r].event_id)
             res == CacheAdd(cache, key)
             answer == IF ~up THEN "Raise"
                       ELSE IF res.stored THEN "True" ELSE "False"
             outcome == ClaimOutcome(answer)
         IN  /\ cache' = IF up THEN res.store ELSE cache
             /\ adds' = IF up THEN [adds EXCEPT ![key] = @ + 1] ELSE adds
             /\ claimed' = [claimed EXCEPT ![r] =
                    [answer |-> answer, key |-> key, epoch |-> epoch[key],
                     order |-> IF up THEN adds[key] + 1 ELSE 0]]
             /\ CASE outcome = "server_error" ->
                        Respond(r, 500, None, <<"claim">>)
                  [] outcome = "duplicate" ->
                        Respond(r, 422, DuplicateError, <<"claim">>)
                  [] OTHER ->
                        Goto(r, "build", <<"claim">>) /\ UNCHANGED response
    /\ UNCHANGED <<settings, workers, epoch, queue, endpoint, request,
                   inbound, payload, issue_event, task_result>>

\* lines 67-79: address, class and interchange event, no I/O in between;
\* the schema of the chosen class may reject the payload
StoreBuild(r) ==
    /\ pc[r] = "build"
    /\ endpoint[r] = "store"
    /\ LET event == WithClientIp(payload[r], get_ip_address(request[r]))
           issue_event_class == get_issue_event_class(event)
       IN  /\ payload' = [payload EXCEPT ![r] = event]
           /\ \E valid \in BOOLEAN :
                IF valid
                THEN /\ issue_event' = [issue_event EXCEPT ![r] =
                           InterchangeIssueEvent(
                               event.event_id, request[r].auth.id,
                               request[r].auth.organization_id,
                               IssueEvent(issue_event_class, event))]
                     /\ Goto(r, "enqueue", <<"resolve", "classify", "build">>)
                     /\ UNCHANGED response
                ELSE /\ Respond(r, 500, None, <<"resolve", "classify">>)
                     /\ UNCHANGED issue_event
    /\ UNCHANGED <<settings, workers, cache, epoch, adds, queue, endpoint,
                   request, inbound, task_result, claimed>>

\* variant: a failed enqueue gives the event id back (cache.delete)
StoreEnqueueReleasing(r) ==
    /\ pc[r] = "enqueue"
    /\ endpoint[r] = "store"
    /\ \E ok \in BOOLEAN :
         LET sent == Delay(queue, r, issue_event[r], ok)
         IN  /\ queue' = sent.queue
             /\ task_result' = [task_result EXCEPT ![r] = sent.task_result]
             /\ cache' = IF ok THEN cache
                         ELSE cache \ {DedupKey(payload[r].event_id)}
             /\ IF ok
                THEN Respond(r, 200,
                             StoreResult(payload[r], sent.task_result, settings),
                             <<"enqueue", "respond">>)
                ELSE Respond(r, 500, None, <<>>)
    /\ UNCHANGED <<settings, workers, epoch, adds, endpoint, request,
                   inbound, payload, issue_event, claimed>>

\* lines 80-84: the enqueue, then the response
StoreEnqueue(r) ==
    /\ pc[r] = "enqueue"
    /\ endpoint[r] = "store"
    /\ \E ok \in BOOLEAN :
         LET sent == Delay(queue, r, issue_event[r], ok)
         IN  /\ queue' = sent.queue
             /\ task_result' = [task_result EXCEPT ![r] = sent.task_result]
             /\ IF ok
                THEN Respond(r, 200,
                             StoreResult(payload[r], sent.task_result, settings),
                             <<"enqueue", "respond">>)
                ELSE Respond(r, 500, None, <<>>)
    /\ UNCHANGED <<settings, workers, cache, epoch, adds, endpoint, request,
                   inbound, payload, issue_event, claimed>>

\* -------------------------------------------------------- event_envelope
\* lines 87-100: the handler has a docstring and no statement, it returns
\* None whatever the envelope holds; the framework then answers either
\* with an empty success or with a response-validation error.
EnvelopeHandle(r) ==
    /\ pc[r] = "handle"
    /\ \E status \in {200, 500} : Respond(r, status, None, <<"respond">>)
    /\ UNCHANGED <<settings, workers, cache, epoch, adds, queue, endpoint,
                   request, inbound, payload, issue_event, task_result,
                   claimed>>

\* -------------------------------------------------------- event_security
\* lines 114-124; the interchange event gets a freshly generated event id
SecurityBuild(r) ==
    /\ pc[r] = "build"
    /\ endpoint[r] = "security"
    /\ \E fresh \in EventIds :
         LET event == WithClientIp(
                          CSPIssueEventSchema(DictByAlias(payload[r].csp_report)),
                          get_ip_address(request[r]))
         IN  issue_event' = [issue_event EXCEPT ![r] =
                 InterchangeIssueEvent(fresh, request[r].auth.id,
                                       request[r].auth.organization_id, event)]
    /\ Goto(r, "enqueue", <<"normalize", "resolve", "build">>)
    /\ UNCHANGED <<settings, workers, cache, epoch, adds, queue, endpoint,
                   request, inbound, payload, task_result, response, claimed>>

\* lines 125-126: the enqueue, then the response
SecurityEnqueue(r) ==
    /\ pc[r] = "enqueue"
    /\ endpoint[r] = "security"
    /\ \E ok \in BOOLEAN :
         LET sent == Delay(queue, r, issue_event[r], ok)
         IN  /\ queue' = sent.queue
             /\ task_result' = [task_result EXCEPT ![r] = sent.task_result]
             /\ IF ok
                THEN Respond(r, 201, None, <<"enqueue", "respond">>)
                ELSE Respond(r, 500, None, <<>>)
    /\ UNCHANGED <<settings, workers, cache, epoch, adds, endpoint, request,
                   inbound, payload, issue_event, claimed>>

\* ------------------------------------------------------------------ TTL
\* cache.add stores the key with the cache's default timeout; when it has
\* run out the key is gone and a new window starts.
Expire(k) ==
    /\ k \in cache
    /\ epoch[k] < MaxExpiry
    /\ cache' = cache \ {k}
    /\ epoch' = [epoch EXCEPT ![k] = @ + 1]
    /\ adds' = [adds EXCEPT ![k] = 0]
    /\ UNCHANGED <<settings, workers, queue, endpoint, request, inbound,
                   payload, pc, issue_event, task_result, response, steps,
                   claimed>>

\* ------------------------------------------------------- specifications
Handle(r) ==
    \/ StoreClaim(r)
    \/ StoreBuild(r)
    \/ StoreEnqueue(r)
    \/ EnvelopeHandle(r)
    \/ SecurityBuild(r)
    \/ SecurityEnqueue(r)

\* several workers, requests with plain payloads, one after another or at
\* the same time
Next ==
    \/ \E p \in SmallStorePayloads, q \in SmallRequests :
          started < MaxRequests /\ BeginStore(p, q)
    \/ \E p \in SmallEnvelopePayloads, q \in SmallRequests :
          started < MaxRequests /\ BeginEnvelope(p, q)
    \/ \E p \in SmallSecurityPayloads, q \in SmallRequests :
          started < MaxRequests /\ BeginSecurity(p, q)
    \/ \E r \in RIds : Handle(r)
    \/ \E k \in Keys : Expire(k)

Spec == Init /\ [][Next]_vars

\* one request of any shape, handled on its own
InitPayload == InitWith(1, BOOLEAN)

NextPayload ==
    \/ \E p \in StorePayloads, q \in Requests :
          started = 0 /\ BeginStore(p, q)
    \/ \E p \in EnvelopePayloads, q \in SmallRequests :
          started = 0 /\ BeginEnvelope(p, q)
    \/ \E p \in SecurityPayloads, q \in Requests :
          started = 0 /\ BeginSecurity(p, q)
    \/ \E r \in RIds : Handle(r)
    \/ \E k \in Keys : Expire(k)

SpecPayload == InitPayload /\ [][NextPayload]_vars

\* ---------------------------------------------------------------- claims
Done(r) == pc[r] = "done"
Entries(r) == {i \in DOMAIN queue : queue[i].rid = r}
NumEnqueued(r) == Cardinality(Entries(r))
IsDuplicateResponse(r) ==
    response[r] = [status |-> 422, body |-> DuplicateError]
Answered(r) ==
    /\ endpoint[r] = "store"
    /\ claimed[r] # None
    /\ claimed[r].answer # "Raise"
SameWindow(r1, r2) ==
    /\ claimed[r1].key = claimed[r2].key
    /\ claimed[r1].epoch = claimed[r2].epoch
IsSupportedItem(t) == t \in SupportedItemTypes

\* C1: two store requests with the same event id whose claims fall in the
\* same TTL window enqueue exactly one event between them, and the second
\* is answered with the duplicate error, whatever becomes of the first
\* after its claim.
C1_TwoSubmissionsOneEnqueue ==
    \A r1, r2 \in RIds :
        ( /\ Answered(r1) /\ Answered(r2)
          /\ SameWindow(r1, r2)
          /\ claimed[r1].order = 1 /\ claimed[r2].order = 2
          /\ Done(r1) /\ Done(r2) )
        => /\ NumEnqueued(r1) + NumEnqueued(r2) = 1
           /\ IsDuplicateResponse(r2)

\* C2: of the store requests whose cache.add was answered for the same key
\* in the same TTL window, at most one was answered "stored", at most one
\* gets as far as ingest_event.delay, and every other one is rejected as a
\* duplicate without enqueuing.
C2_AtMostOneClaimPerWindow ==
    \A r1, r2 \in RIds :
        (r1 # r2 /\ Answered(r1) /\ Answered(r2) /\ SameWindow(r1, r2))
        => /\ ~(claimed[r1].answer = "True" /\ claimed[r2].answer = "True")
           /\ ~(issue_event[r1] # None /\ issue_event[r2] # None)
           /\ NumEnqueued(r1) + NumEnqueued(r2) <= 1
           /\ claimed[r2].answer = "False"
                => /\ IsDuplicateResponse(r2)
                   /\ issue_event[r2] = None

\* C2 witness: a second worker is rejected while the first, which holds
\* the claim of the same window, has not yet enqueued.
C2_Witness ==
    \E r1, r2 \in RIds :
        /\ Answered(r1) /\ Answered(r2) /\ SameWindow(r1, r2)
        /\ claimed[r1].answer = "True" /\ pc[r1] = "enqueue"
        /\ claimed[r2].answer = "False" /\ IsDuplicateResponse(r2)

\* C3: an answered envelope request has enqueued as many events as the
\* envelope holds supported items (issue events and transactions), so
\* three for an envelope of three issue events and one attachment.
C3_EnvelopeEnqueuesSupportedItems ==
    \A r \in RIds :
        (endpoint[r] = "envelope" /\ Done(r))
        => NumEnqueued(r) = Len(SelectSeq(inbound[r].items, IsSupportedItem))

\* C4: for a project that scrubs addresses, the user.ip_address of an
\* enqueued store or security event is not the raw address of the request
\* whenever anonymizing that address changes it.
C4_ScrubbedAddressNeverRaw ==
    \A i \in DOMAIN queue :
        LET r == queue[i].rid
            raw == request[r].remote_addr
            user == queue[i].event.payload.user
        IN  ( /\ endpoint[r] \in {"store", "security"}
              /\ request[r].auth.should_scrub_ip_addresses
              /\ raw # None
              /\ anonymize_ip(raw) # raw
              /\ user # None )
            => user.ip_address # raw

\* C5: when the address of the request is not publicly routable, the
\* enqueued store or security event carries no address in its user field.
C5_NonRoutableRecordedAbsent ==
    \A i \in DOMAIN queue :
        LET r == queue[i].rid
            raw == request[r].remote_addr
            user == queue[i].event.payload.user
        IN  ( /\ endpoint[r] \in {"store", "security"}
              /\ raw # None
              /\ raw[1] \in {10, 127} )
            => (user = None \/ user.ip_address = None)

\* C6: a security request answered with success got status 201 and an
\* empty body, made no cache.add call, and enqueued exactly one event,
\* whose payload has the report under csp and no exception.
C6_SecurityEnqueuesOneCspEvent ==
    \A r \in RIds :
        (endpoint[r] = "security" /\ Done(r) /\ response[r].status < 400)
        => /\ response[r] = [status |-> 201, body |-> None]
           /\ claimed[r] = None
           /\ NumEnqueued(r) = 1
           /\ \A i \in Entries(r) :
                /\ queue[i].event.payload.csp
                     = [f \in {"document-uri", "violated-directive"} |->
                          IF f = "document-uri"
                          THEN inbound[r].csp_report.document_uri
                          ELSE inbound[r].csp_report.violated_directive]
                /\ queue[i].event.payload.exception = None

\* C6 witness: two identical reports, one after the other, both answered
\* 201, each with its own event in the queue.
C6_Witness ==
    \E r1, r2 \in RIds :
        /\ r1 < r2
        /\ endpoint[r1] = "security" /\ endpoint[r2] = "security"
        /\ inbound[r1] = inbound[r2]
        /\ response[r1].status = 201 /\ response[r2].status = 201
        /\ NumEnqueued(r1) = 1 /\ NumEnqueued(r2) = 1
        /\ Len(queue) = 2

C8_TaskIdOnlyInLoadTest ==
    \A r \in RIds :
        (endpoint[r] = "store" /\ Done(r) /\ response[r].status = 200)
        => /\ (response[r].body.task_id # None) <=> settings.IS_LOAD_TEST
           /\ response[r].body.event_id
                = <<HexDigits[(inbound[r].event_id \div 16) + 1],
                    HexDigits[(inbound[r].event_id % 16) + 1]>>
           /\ ~settings.IS_LOAD_TEST
                => response[r].body = [event_id |-> response[r].body.event_id,
                                       task_id |-> None]

\* C8 witness: under IS_LOAD_TEST the response to event id 171 carries the
\* handle of the first task.
C8_Witness ==
    \E r \in RIds :
        /\ endpoint[r] = "store" /\ settings.IS_LOAD_TEST
        /\ response[r] = [status |-> 200,
                          body |-> [event_id |-> <<"a", "b">>,
                                    task_id |-> <<"task", 1>>]]

\* C9: an enqueued event is of the Error class when the inbound payload
\* has a non-empty exception, of the CSP class when it is a security
\* report (which has no exception field), and of the generic class
\* otherwise.
C9_VariantByPayload ==
    \A i \in DOMAIN queue :
        LET r == queue[i].rid
            schema == queue[i].event.payload.schema
        IN  IF endpoint[r] = "security"
            THEN schema = "CSPIssueEventSchema"
            ELSE IF inbound[r].exception \notin {None, <<"empty">>}
                 THEN schema = "ErrorIssueEventSchema"
                 ELSE schema = "IssueEventSchema"

\* C9 witness: a store event with exception values was enqueued as Error.
C9_Witness ==
    \E i \in DOMAIN queue :
        /\ endpoint[queue[i].rid] = "store"
        /\ inbound[queue[i].rid].exception = <<"values", "ZeroDivisionError">>
        /\ queue[i].event.payload.schema = "ErrorIssueEventSchema"
        /\ queue[i].event.payload.exception = <<"values", "ZeroDivisionError">>

StoreSteps == <<"claim", "resolve", "classify", "build", "enqueue", "respond">>

\* C10: a store request claims its event id before it touches the payload
\* or builds anything, enqueues last, and has enqueued nothing when it is
\* answered with an error and exactly one event when answered with success.
C10_NoPartialEnqueue ==
    \A r \in RIds :
        endpoint[r] = "store"
        => /\ steps[r] = SubSeq(StoreSteps, 1, Len(steps[r]))
           /\ claimed[r] = None
                => (payload[r] = inbound[r] /\ issue_event[r] = None)
           /\ ~Done(r) => NumEnqueued(r) = 0
           /\ (Done(r) /\ response[r].status >= 400) => NumEnqueued(r) = 0
           /\ (Done(r) /\ response[r].status < 400)
                => (NumEnqueued(r) = 1 /\ response[r].status = 200)

\* C10 witness: the queue refused the event of a request that had claimed
\* its id and built its event; the request ended in an error, the queue
\* holds nothing of it.
C10_Witness ==
    \E r \in RIds :
        /\ endpoint[r] = "store" /\ Done(r)
        /\ claimed[r].answer = "True"
        /\ issue_event[r] # None
        /\ response[r].status = 500
        /\ NumEnqueued(r) = 0

\* C11: event_store never removes a dedup key.  The key of a request that
\* claimed its event id is in the cache for as long as the TTL of that
\* claim has not run out, whatever the request did afterwards; so when the
\* request failed after its claim, every other request for the same id in
\* that window is rejected as a duplicate and nothing is enqueued for it.
C11_ClaimOutlivesFailure ==
    /\ \A r \in RIds :
         ( /\ endpoint[r] = "store" /\ claimed[r] # None
           /\ claimed[r].answer = "True"
           /\ epoch[claimed[r].key] = claimed[r].epoch )
         => claimed[r].key \in cache
    /\ \A r1, r2 \in RIds :
         ( /\ r1 # r2 /\ Answered(r1) /\ Answered(r2) /\ SameWindow(r1, r2)
           /\ claimed[r1].answer = "True"
           /\ Done(r1) /\ response[r1].status >= 400 )
         => /\ IsDuplicateResponse(r2)
            /\ NumEnqueued(r1) + NumEnqueued(r2) = 0

\* C11 witness: the first request claimed the id and then failed, the
\* retry inside the TTL is a duplicate, the id is still claimed and the
\* queue is empty.
C11_Witness ==
    \E r1, r2 \in RIds :
        /\ r1 < r2
        /\ Answered(r1) /\ Answered(r2) /\ SameWindow(r1, r2)
        /\ claimed[r1].answer = "True"
        /\ Done(r1) /\ response[r1].status = 500
        /\ IsDuplicateResponse(r2)
        /\ claimed[r1].key \in cache
        /\ queue = <<>>

====
